---- MODULE Spec2Model ----
(***************************************************************************)
(* Club21 order feed: the flatten-and-derive transform (ShopifyTransform)  *)
(* and the pipeline run (main / run_pipeline_endpoint) around it.          *)
(*                                                                         *)
(* Conventions of the model                                                *)
(*  - Money is counted in cents (integers).  Shopify amounts carry two     *)
(*    decimals, so .round(2) is the identity on them.                      *)
(*  - Strings the code parses (location names, order names) are tuples of  *)
(*    one-character strings; strings it only copies are TLA+ strings.      *)
(*  - A table (DataFrame, list of dicts) is a sequence of records.         *)
(***************************************************************************)
EXTENDS Integers, Sequences, FiniteSets, TLC

VARIABLES
    directory,   \* the *.json files of DESTINATION, in glob order
    arg_rows,    \* the rows argument of post_transform (NoRows: rows=None)
    pc,          \* position of the transform call
    rows,        \* flatten()'s list of rows / the rows argument
    data,        \* the enriched frame handed to _duty_tax
    duty_data,   \* the frame _duty_tax returns
    gift_data,   \* the frame _giftbox_transform returns
    out,         \* the frame post_transform returns
    entry,             \* the entry point of the run: "main" or "app"
    run_pc,            \* position of the run
    runs,              \* runs started so far
    remote_ckpt,       \* the blob LatestOrder/last_order.json
    local_ckpt,        \* the local file last_order.json
    latest_order_id,   \* what load_latest_order returned (<<>>: None)
    query_filter,      \* what build_query_filter returned
    orders,            \* the listed orders (ids)
    idx,               \* position of the detail loop in orders
    order_detail_files,\* the files the run saved
    csv,               \* the local CSV the run wrote
    feed,              \* the CSV blobs uploaded to OrderFeed/, oldest first
    failed_at,         \* the step at which the run ended early
    remote_at_start,   \* history: remote_ckpt when the run started
    download,          \* history: how download_from_gcs ended in this run
    last_response,     \* history: the kind of the last upstream response
    assigned_location, \* the argument of a call of warehouse_code
    code               \* what warehouse_code returned, call after call

tvars == <<arg_rows, pc, rows, data, duty_data, gift_data, out>>

pvars == <<entry, run_pc, runs, remote_ckpt, local_ckpt, latest_order_id, query_filter,
           orders, idx, order_detail_files, csv, feed, failed_at, remote_at_start,
           download, last_response>>

wvars == <<assigned_location, code>>

vars == <<directory, tvars, pvars, wvars>>

----------------------------------------------------------------------------
(* Strings as tuples of characters *)

Digits == {"0", "1", "2", "3", "4", "5", "6", "7", "8", "9"}

\* ord(c) for the characters the model's strings use
CharCode ==
    (" " :> 32) @@ ("-" :> 45) @@
    ("0" :> 48) @@ ("1" :> 49) @@ ("2" :> 50) @@ ("3" :> 51) @@ ("4" :> 52) @@
    ("5" :> 53) @@ ("6" :> 54) @@ ("7" :> 55) @@ ("8" :> 56) @@ ("9" :> 57) @@
    ("A" :> 65) @@ ("D" :> 68) @@ ("E" :> 69) @@ ("I" :> 73) @@ ("M" :> 77) @@
    ("N" :> 78) @@ ("O" :> 79) @@ ("P" :> 80) @@ ("R" :> 82) @@ ("S" :> 83)

L051 == <<"0", "5", "1">>
L888 == <<"8", "8", "8">>
L999 == <<"9", "9", "9">>
LPreOrder == <<"P", "R", "E", " ", "O", "R", "D", "E", "R">>

\* Python's str comparison: lexicographic by code point
RECURSIVE StrLess(_, _)
StrLess(s, t) ==
    IF t = <<>> THEN FALSE
    ELSE IF s = <<>> THEN TRUE
    ELSE IF Head(s) # Head(t) THEN CharCode[Head(s)] < CharCode[Head(t)]
    ELSE StrLess(Tail(s), Tail(t))

\* x.split(sep)[-1]: what follows the last sep, the whole string without one
SplitLastOn(s, sep) ==
    LET seps == {i \in 1..Len(s) : s[i] = sep}
    IN  IF seps = {} THEN s
        ELSE LET last == CHOOSE i \in seps : \A j \in seps : j <= i
             IN  SubSeq(s, last + 1, Len(s))

\* x.split("-")[-1]
SplitLast(s) == SplitLastOn(s, "-")

\* the number a string of decimal digits denotes
RECURSIVE DecimalValue(_)
DecimalValue(s) ==
    IF s = <<>> THEN 0
    ELSE 10 * DecimalValue(SubSeq(s, 1, Len(s) - 1)) + (CharCode[s[Len(s)]] - 48)

RECURSIVE LeadingDigits(_)
LeadingDigits(s) ==
    IF s = <<>> \/ Head(s) \notin Digits THEN <<>>
    ELSE <<Head(s)>> \o LeadingDigits(Tail(s))

\* variant with the pattern r"^\d": the first digit only
warehouse_code_FirstDigit(location) ==
    IF LeadingDigits(location) # <<>> THEN <<Head(location)>> ELSE location

\* re.compile(r"^\d+").search(s): the leading run of digits, else s itself
warehouse_code(location) ==
    IF LeadingDigits(location) # <<>>
    THEN LeadingDigits(location)
    ELSE location

----------------------------------------------------------------------------
(* Sequences *)

RECURSIVE SumSeq(_)
SumSeq(s) == IF s = <<>> THEN 0 ELSE Head(s) + SumSeq(Tail(s))

\* max() of a non-empty list
MaxSeq(s) == CHOOSE m \in {s[i] : i \in 1..Len(s)} : \A j \in 1..Len(s) : s[j] <= m

RECURSIVE Flat(_)
Flat(ss) == IF ss = <<>> THEN <<>> ELSE Head(ss) \o Flat(Tail(ss))

\* the elements of a set of strings as a sequence in ascending order
RECURSIVE SortedStrs(_)
SortedStrs(S) ==
    IF S = {} THEN <<>>
    ELSE LET m == CHOOSE x \in S : \A y \in S \ {x} : StrLess(x, y)
         IN  <<m>> \o SortedStrs(S \ {m})

----------------------------------------------------------------------------
(* Flattener: ShopifyTransform.flatten                                      *)
(*                                                                          *)
(* A file is a record                                                       *)
(*   [has_order, has_shipping_line, id, name, note, closed, discount_code,  *)
(*    shipping_price, shipping_taxes, legs]                                 *)
(* has_order = FALSE: the envelope has no data.order object;                *)
(* has_shipping_line = FALSE: order.shippingLine is null or absent.         *)
(* A leg (fulfillment order) is [location, items]; a line item is           *)
(*   [id, sku, name, quantity, vendor, original, discounts, taxes, duties]  *)
(* with discounts and taxes sequences of amounts and duties a sequence of   *)
(* [price, taxes].                                                          *)

\* order[...] subscripts of lines 79-105 raise KeyError/TypeError on a file
\* without the order object or without a shipping line
DocRaises(doc) == ~doc.has_order \/ ~doc.has_shipping_line

\* lines 135-140: 0.0, or the sum of all allocations
DiscountAmount(item) == SumSeq(item.discounts)

\* lines 142-151: the first tax line only
TaxAmount(item) == IF item.taxes = <<>> THEN 0 ELSE item.taxes[1]

\* lines 153-159: the first duty entry only
DutyAmount(item) == IF item.duties = <<>> THEN 0 ELSE item.duties[1].price

\* lines 161-163: the first tax line of the first duty entry
DutyTax(item) ==
    IF item.duties = <<>> \/ item.duties[1].taxes = <<>> THEN 0
    ELSE item.duties[1].taxes[1]

\* lines 165-173: the row of one line item of one fulfillment order
FlatRow(doc, leg, item) ==
    [order_id |-> doc.id,
     order_name |-> doc.name,
     order_note |-> doc.note,
     order_closed |-> doc.closed,
     discount_code |-> doc.discount_code,
     shipping_discounted_price |-> doc.shipping_price,
     shipping_tax_amount |-> SumSeq(doc.shipping_taxes),
     assigned_location |-> leg.location,
     lineitem_id |-> item.id,
     sku |-> item.sku,
     product_name |-> item.name,
     quantity |-> item.quantity,
     vendor |-> item.vendor,
     original_total |-> item.original,
     discount_amount |-> DiscountAmount(item),
     tax_amount |-> TaxAmount(item),
     tax_title |-> IF item.taxes = <<>> THEN "" ELSE "GST",
     duty_amount |-> DutyAmount(item),
     duty_tax |-> DutyTax(item)]

\* variant of lines 120-173 that walks the line items last to first
LegRows_Reversed(doc, leg) ==
    [i \in 1..Len(leg.items) |-> FlatRow(doc, leg, leg.items[Len(leg.items) + 1 - i])]

\* lines 120-173: every line item of a fulfillment order, as given
LegRows(doc, leg) == [i \in 1..Len(leg.items) |-> FlatRow(doc, leg, leg.items[i])]

\* variant of lines 114-173 that reads the first fulfillment order only
DocRows_FirstLeg(doc) == IF doc.legs = <<>> THEN <<>> ELSE LegRows(doc, doc.legs[1])

\* lines 114-173: every fulfillment order of a document, as given
DocRows(doc) == Flat([j \in 1..Len(doc.legs) |-> LegRows(doc, doc.legs[j])])

\* flatten(): the rows of every file in load_dir() order; an exception of one
\* file leaves the loop and the method (no try/except around lines 79-173)
flatten(dir) ==
    IF \E i \in 1..Len(dir) : DocRaises(dir[i])
    THEN [raised |-> TRUE, rows |-> <<>>]
    ELSE [raised |-> FALSE, rows |-> Flat([i \in 1..Len(dir) |-> DocRows(dir[i])])]

----------------------------------------------------------------------------
(* Row Enricher: the per-row part of post_transform (lines 186-205)         *)

Enrich(r) ==
    [order_name |-> SplitLast(r.order_name),
     order_closed |-> IF r.order_closed THEN "closed" ELSE "open",
     assigned_location |-> warehouse_code(r.assigned_location),
     sku |-> r.sku,
     product_name |-> r.product_name,
     quantity |-> r.quantity,
     original_total |-> r.original_total,
     adjusted_discounted_total |-> r.original_total - r.discount_amount,
     vendor |-> r.vendor,
     total_shipping |-> r.shipping_discounted_price + r.shipping_tax_amount,
     total_duty |-> r.duty_amount + r.duty_tax,
     duty_tax |-> r.duty_tax,
     tax_title |-> r.tax_title,
     total_tax |-> r.tax_amount,
     order_note |-> r.order_note,
     discount_amount |-> r.discount_amount,
     discount_code |-> r.discount_code]

----------------------------------------------------------------------------
(* Order-Level Aggregator: ShopifyTransform._duty_tax                       *)

VirtualLocations == {L888, L999}
\* variant of line 238 that keeps the rows at "051" only
SynthesisLocations_Only051 == {L051}

\* line 238: isin(["051", "888", "999"])
SynthesisLocations == {L051, L888, L999}

\* groupby("order_name"): the group keys in sorted order
GroupKeys(table) == SortedStrs({table[i].order_name : i \in 1..Len(table)})

OrderGroup(table, name) == SelectSeq(table, LAMBDA r : r.order_name = name)

\* line 236: order_group["assigned_location"].unique()
UniqueWarehouse(group) == {group[i].assigned_location : i \in 1..Len(group)}

\* variant of line 237 that also takes a "051" row as a trigger
Participates_Any051(group) == UniqueWarehouse(group) \cap {L051, L888, L999} # {}

\* line 237
Participates(group) == L888 \in UniqueWarehouse(group) \/ L999 \in UniqueWarehouse(group)

\* line 238: the group's rows at "051", "888", "999"
OrderDict(group) == SelectSeq(group, LAMBDA r : r.assigned_location \in SynthesisLocations)

\* variant of line 244 that takes the largest duty instead of the sum
TotalDuty_Max(order_dict) == MaxSeq([i \in 1..Len(order_dict) |-> order_dict[i].total_duty])

\* line 244
TotalDuty(order_dict) == SumSeq([i \in 1..Len(order_dict) |-> order_dict[i].total_duty])

\* variant of line 245 that sums the shipping of the legs
TotalShipping_Sum(order_dict) == SumSeq([i \in 1..Len(order_dict) |-> order_dict[i].total_shipping])

\* line 245
TotalShipping(order_dict) == MaxSeq([i \in 1..Len(order_dict) |-> order_dict[i].total_shipping])

\* lines 250-280
DutyRow(name, order_dict) ==
    [order_name |-> name,
     order_closed |-> order_dict[1].order_closed,
     assigned_location |-> L051,
     sku |-> "90000000-DUTIES",
     product_name |-> "Duties & Taxes",
     quantity |-> 1,
     original_total |-> TotalDuty(order_dict),
     adjusted_discounted_total |-> TotalDuty(order_dict),
     vendor |-> "[Shipping]",
     total_shipping |-> 0,
     total_duty |-> 0,
     duty_tax |-> 0,
     tax_title |-> "TAX",
     total_tax |-> SumSeq([i \in 1..Len(order_dict) |-> order_dict[i].duty_tax]),
     order_note |-> order_dict[1].order_note,
     discount_amount |-> 0,
     discount_code |-> ""]

\* lines 284-314
DeliveryRow(name, order_dict) ==
    [order_name |-> name,
     order_closed |-> order_dict[1].order_closed,
     assigned_location |-> L051,
     sku |-> "9000000-DELIVER",
     product_name |-> "Delivery",
     quantity |-> 1,
     original_total |-> TotalShipping(order_dict),
     adjusted_discounted_total |-> TotalShipping(order_dict),
     vendor |-> "[Shipping]",
     total_shipping |-> 0,
     total_duty |-> 0,
     duty_tax |-> 0,
     tax_title |-> "TAX",
     total_tax |-> 0,
     order_note |-> "",
     discount_amount |-> 0,
     discount_code |-> ""]

\* lines 236-315: the rows one order group appends to transformed_rows
GroupSynthetic(name, group) ==
    IF ~Participates(group) THEN <<>>
    ELSE LET order_dict == OrderDict(group)
         IN  IF order_dict = <<>> THEN <<>>
             ELSE (IF TotalDuty(order_dict) > 0
                   THEN <<DutyRow(name, order_dict)>> ELSE <<>>)
                  \o
                  (IF TotalShipping(order_dict) > 0
                   THEN <<DeliveryRow(name, order_dict)>> ELSE <<>>)

\* lines 233-315: transformed_rows, over the groups in key order
TransformedRows(table) ==
    LET keys == GroupKeys(table)
    IN  Flat([k \in 1..Len(keys) |-> GroupSynthetic(keys[k], OrderGroup(table, keys[k]))])

\* variant of line 319 that forgets "999"
DropVirtual_Only888(table) == SelectSeq(table, LAMBDA r : r.assigned_location # L888)

\* line 319
DropVirtual(table) == SelectSeq(table, LAMBDA r : r.assigned_location \notin VirtualLocations)

\* lines 317-320
_duty_tax(transformed_data) ==
    DropVirtual(transformed_data \o TransformedRows(transformed_data))

----------------------------------------------------------------------------
(* Gift-Wrap Rewriter: ShopifyTransform._giftbox_transform                  *)

\* variant of line 219 with a strict comparison
DropMask_Strict(r) == r.assigned_location = LPreOrder /\ r.adjusted_discounted_total < 0

\* line 219
DropMask(r) == r.assigned_location = LPreOrder /\ r.adjusted_discounted_total <= 0

\* lines 222-227
GiftRewrite(r) ==
    IF r.assigned_location = LPreOrder
    THEN [r EXCEPT !.assigned_location = L051,
                   !.sku = "900000000-PROPS",
                   !.product_name = "Gift Wrap",
                   !.vendor = "Club21",
                   !.discount_code = ""]
    ELSE r

\* lines 218-228
_giftbox_transform(transformed_data) ==
    LET kept == SelectSeq(transformed_data, LAMBDA r : ~DropMask(r))
    IN  [i \in 1..Len(kept) |-> GiftRewrite(kept[i])]

----------------------------------------------------------------------------
(* Tabular Emitter: lines 209-216 of post_transform                         *)
(* A presentation cell is [kind, num, lit]: kind "float" is the number num, *)
(* kind "str" is str(num), kind "literal" is the string lit.                *)

Cell(kind, num, lit) == [kind |-> kind, num |-> num, lit |-> lit]

\* variant of line 209 that tests x >= 0
EmitDiscount_ZeroNegated(x) ==
    IF x >= 0 THEN Cell("float", x * (-1), "") ELSE Cell("literal", 0, "-0")

\* line 209
EmitDiscount(x) == IF x > 0 THEN Cell("float", x * (-1), "") ELSE Cell("literal", 0, "-0")

\* line 210
EmitDuty(x) == IF x > 0 THEN Cell("float", x, "") ELSE Cell("literal", 0, "\"\"")

\* line 211
EmitShipping(x) == IF x > 0 THEN Cell("str", x, "") ELSE Cell("literal", 0, "0")

\* lines 209-214 on one row; drop(columns=["duty_tax"])
EmitRow(r) ==
    [order_name |-> r.order_name,
     order_closed |-> r.order_closed,
     assigned_location |-> r.assigned_location,
     sku |-> r.sku,
     product_name |-> r.product_name,
     quantity |-> r.quantity,
     original_total |-> r.original_total,
     adjusted_discounted_total |-> r.adjusted_discounted_total,
     vendor |-> r.vendor,
     total_shipping |-> EmitShipping(r.total_shipping),
     total_duty |-> EmitDuty(r.total_duty),
     tax_title |-> r.tax_title,
     total_tax |-> r.total_tax,
     order_note |-> r.order_note,
     discount_amount |-> EmitDiscount(r.discount_amount),
     discount_code |-> r.discount_code]

Emit(table) == [i \in 1..Len(table) |-> EmitRow(table[i])]

----------------------------------------------------------------------------
(* post_transform (lines 181-216)                                           *)

\* a DataFrame of no rows has no columns: data["order_name"] raises KeyError
\* (line 186)
PostTransformRaises(rws) == rws = <<>>

\* lines 186-205
Enriched(rws) == [i \in 1..Len(rws) |-> Enrich(rws[i])]

----------------------------------------------------------------------------
(* Inputs of the transform                                                  *)

MaxRows == 2   \* longest rows argument handed to post_transform
MaxDocs == 2   \* most order files in the directory

R051 == <<"0", "5", "1", "-", "M", "A", "I", "N">>
L052 == <<"0", "5", "2">>

DigitChar == <<"1", "2", "3", "4", "5", "6", "7", "8", "9">>

\* the order names: "S-1", "S-2", ...
NameOf(id) == <<"S", "-", DigitChar[id]>>

RawRow(id, loc, orig, disc, duty, dtax, ship) ==
    [order_id |-> id,
     order_name |-> NameOf(id),
     order_note |-> "",
     order_closed |-> FALSE,
     discount_code |-> IF disc > 0 THEN "SALE" ELSE "",
     shipping_discounted_price |-> ship,
     shipping_tax_amount |-> 0,
     assigned_location |-> loc,
     lineitem_id |-> "li",
     sku |-> "SKU-1",
     product_name |-> "Shirt",
     quantity |-> 1,
     vendor |-> "Acme",
     original_total |-> orig,
     discount_amount |-> disc,
     tax_amount |-> 0,
     tax_title |-> "",
     duty_amount |-> duty - dtax,
     duty_tax |-> dtax]

\* the rows a caller may pass: consolidation and virtual locations with or
\* without duty and shipping, gift-wrap rows of positive, zero and negative
\* net value, with and without a discount, and a discounted row of another
\* warehouse
GivenRowSet ==
    {RawRow(id, loc, 1000, 0, duty, 0, ship) :
        id \in 1..2, loc \in {R051, L888, L999}, duty \in {0, 500}, ship \in {0, 300}}
    \cup
    {RawRow(id, LPreOrder, 1000, disc, 0, 0, 0) : id \in 1..2, disc \in {0, 250, 1000, 1500}}
    \cup
    {RawRow(id, L052, 1000, 250, 500, 100, 300) : id \in 1..2}

Item(duty) ==
    [id |-> "li", sku |-> "SKU-1", name |-> "Shirt", quantity |-> 1,
     vendor |-> "Acme", original |-> 1000, discounts |-> <<>>, taxes |-> <<>>,
     duties |-> IF duty = 0 THEN <<>> ELSE <<[price |-> duty, taxes |-> <<>>]>>]

\* a placeholder line item: no SKU (null) and quantity 0
EmptyItem ==
    [id |-> "li0", sku |-> "", name |-> "", quantity |-> 0,
     vendor |-> "", original |-> 0, discounts |-> <<>>, taxes |-> <<>>,
     duties |-> <<>>]

Leg(loc, duty) == [location |-> loc, items |-> <<Item(duty)>>]

LegSet == {Leg(loc, duty) : loc \in {R051, L888}, duty \in {0, 500}}

\* one fulfillment order, or a split order: a leg at the consolidation
\* warehouse and a leg at the virtual location, in either order; a fulfillment
\* order with a placeholder line item, alone or beside a real one
LegSeqs ==
    {<<a>> : a \in LegSet}
    \cup {<<Leg(R051, d1), Leg(L888, d2)>> : d1 \in {0, 500}, d2 \in {0, 500}}
    \cup {<<Leg(L888, d), Leg(R051, 0)>> : d \in {0, 500}}
    \cup {<<[location |-> R051, items |-> its]>> :
             its \in {<<EmptyItem>>, <<Item(0), EmptyItem>>, <<EmptyItem, Item(0)>>}}

Doc(id, ship, legs) ==
    [has_order |-> TRUE, has_shipping_line |-> TRUE, id |-> id, name |-> NameOf(id),
     note |-> "", closed |-> FALSE, discount_code |-> "",
     shipping_price |-> ship, shipping_taxes |-> <<>>, legs |-> legs]

\* a file whose envelope has no order object
NoOrderDoc(id) == [Doc(id, 0, <<>>) EXCEPT !.has_order = FALSE, !.has_shipping_line = FALSE]

\* a file whose order has no shipping line
NoShippingLineDoc(id) == [Doc(id, 0, <<Leg(R051, 0)>>) EXCEPT !.has_shipping_line = FALSE]

DocSet(id) ==
    {Doc(id, ship, legs) : ship \in {0, 300}, legs \in LegSeqs}
    \cup {NoOrderDoc(id), NoShippingLineDoc(id)}

AllDocs == UNION {DocSet(id) : id \in 1..MaxDocs}

\* files are named order_<id>.json: the ids of a directory are distinct
DistinctFiles(dir) == \A i, j \in 1..Len(dir) : i # j => dir[i].id # dir[j].id

NoRows == [given |-> FALSE, rows |-> <<>>]

----------------------------------------------------------------------------
(* The transform as a state machine *)

\* a checkpoint file or blob: absent, unreadable, or holding an order id
NoFile == [state |-> "absent", id |-> 0]
BadFile == [state |-> "corrupt", id |-> 0]
FileOf(id) == [state |-> "ok", id |-> id]

NoFilter == [kind |-> "none", id |-> <<>>, days |-> 0]

\* warehouse_code has not been called on its own
NoCall ==
    /\ assigned_location = <<>>
    /\ code = <<>>

\* no run has started
RunIdle ==
    /\ entry = "main"
    /\ run_pc = "idle"
    /\ runs = 0
    /\ remote_ckpt = NoFile
    /\ local_ckpt = NoFile
    /\ latest_order_id = <<>>
    /\ query_filter = NoFilter
    /\ orders = <<>>
    /\ idx = 1
    /\ order_detail_files = <<>>
    /\ csv = <<>>
    /\ feed = <<>>
    /\ failed_at = "none"
    /\ remote_at_start = NoFile
    /\ download = "none"
    /\ last_response = "none"

TInit ==
    /\ \/ /\ \E k \in 0..MaxDocs : directory \in [1..k -> AllDocs]
          /\ DistinctFiles(directory)
          /\ arg_rows = NoRows
       \/ /\ directory = <<>>
          /\ \E k \in 0..MaxRows : \E t \in [1..k -> GivenRowSet] :
                arg_rows = [given |-> TRUE, rows |-> t]
    /\ pc = "start"
    /\ rows = <<>>
    /\ data = <<>>
    /\ duty_data = <<>>
    /\ gift_data = <<>>
    /\ out = <<>>
    /\ RunIdle
    /\ NoCall

\* flatten() returns the rows of the directory (post_transform line 183)
Flatten ==
    /\ pc = "start"
    /\ ~arg_rows.given
    /\ ~flatten(directory).raised
    /\ rows' = flatten(directory).rows
    /\ pc' = "flattened"
    /\ UNCHANGED <<directory, arg_rows, data, duty_data, gift_data, out, pvars, wvars>>

\* flatten() raises: the exception leaves post_transform too
FlattenRaise ==
    /\ pc = "start"
    /\ ~arg_rows.given
    /\ flatten(directory).raised
    /\ pc' = "flatten_raised"
    /\ UNCHANGED <<directory, arg_rows, rows, data, duty_data, gift_data, out, pvars, wvars>>

\* the rows post_transform works on: its argument, or flatten()'s
HaveRows == (pc = "start" /\ arg_rows.given) \/ pc = "flattened"
WorkRows == IF pc = "start" THEN arg_rows.rows ELSE rows

\* post_transform raises on an empty row list
PostTransformRaise ==
    /\ HaveRows
    /\ PostTransformRaises(WorkRows)
    /\ rows' = WorkRows
    /\ pc' = "raised"
    /\ UNCHANGED <<directory, arg_rows, data, duty_data, gift_data, out, pvars, wvars>>

\* post_transform returns: enrich, aggregate, rewrite gift wrap, emit
PostTransform ==
    /\ HaveRows
    /\ ~PostTransformRaises(WorkRows)
    /\ rows' = WorkRows
    /\ data' = Enriched(rows')
    /\ duty_data' = _duty_tax(data')
    /\ gift_data' = _giftbox_transform(duty_data')
    /\ out' = Emit(gift_data')
    /\ pc' = "done"
    /\ UNCHANGED <<directory, arg_rows, pvars, wvars>>

TNext == Flatten \/ FlattenRaise \/ PostTransformRaise \/ PostTransform

Spec == TInit /\ [][TNext]_vars

----------------------------------------------------------------------------
(* Properties of the transform                                              *)

SkuDuties == "90000000-DUTIES"
SkuDelivery == "9000000-DELIVER"

Done == pc = "done"

OrderNames(t) == {t[i].order_name : i \in 1..Len(t)}

\* the rows of table t of order n at one of the locations locs
RowsAt(t, n, locs) ==
    SelectSeq(t, LAMBDA r : r.order_name = n /\ r.assigned_location \in locs)

\* the rows of table t of order n carrying SKU sku
RowsOfSku(t, n, sku) == SelectSeq(t, LAMBDA r : r.order_name = n /\ r.sku = sku)

Column(t, f(_)) == [i \in 1..Len(t) |-> f(t[i])]

DutyOf(r) == r.total_duty
ShippingOf(r) == r.total_shipping

HasVirtual(t) == \E i \in 1..Len(t) : t[i].assigned_location \in {L888, L999}

\* C1: a table with no row at "888" or "999" comes back from _duty_tax as it
\* went in: the same rows in the same order, and no synthetic row.
C1_AggregatorIdentity == (Done /\ ~HasVirtual(data)) => duty_data = data

\* C1 witness: two or more rows, none virtual, one of them at "051" with duty
\* and shipping charges, returned unchanged.
C1_Witness ==
    /\ Done
    /\ ~HasVirtual(data)
    /\ Len(data) >= 2
    /\ \E i \in 1..Len(data) :
          /\ data[i].assigned_location = L051
          /\ data[i].total_duty > 0
          /\ data[i].total_shipping > 0
    /\ duty_data = data

\* C2 as claimed: an order with a single "888" row gets no Duties & Taxes row
\* when that row's total_duty is 0, and exactly one, carrying the sum of
\* total_duty over the order's rows at "051", "888", "999", when it is positive.
C2_AsClaimed ==
    Done =>
      \A n \in OrderNames(data) :
        LET v == RowsAt(data, n, {L888})
            synth == RowsOfSku(duty_data, n, SkuDuties)
            sum == SumSeq(Column(RowsAt(data, n, {L051, L888, L999}), DutyOf))
        IN  Len(v) = 1 =>
              /\ v[1].total_duty = 0 => synth = <<>>
              /\ v[1].total_duty > 0 =>
                    /\ Len(synth) = 1
                    /\ synth[1].adjusted_discounted_total = sum

\* C2, amended: an order with a single "888" row gets no Duties & Taxes row
\* when the sum of total_duty over its rows at "051", "888", "999" is not
\* positive, and exactly one, with SKU "90000000-DUTIES" and
\* adjusted_discounted_total equal to that sum, when the sum is positive.
C2_DutySynthesis ==
    Done =>
      \A n \in OrderNames(data) :
        LET v == RowsAt(data, n, {L888})
            synth == RowsOfSku(duty_data, n, SkuDuties)
            sum == SumSeq(Column(RowsAt(data, n, {L051, L888, L999}), DutyOf))
        IN  Len(v) = 1 =>
              /\ sum <= 0 => synth = <<>>
              /\ sum > 0 =>
                    /\ Len(synth) = 1
                    /\ synth[1].adjusted_discounted_total = sum
                    /\ synth[1].product_name = "Duties & Taxes"

\* C2 witness: an order whose "888" row has no duty while its "051" row has,
\* and which gets one Duties & Taxes row carrying the "051" row's duty.
C2_Witness ==
    /\ Done
    /\ \E n \in OrderNames(data) :
          /\ Len(RowsAt(data, n, {L888})) = 1
          /\ RowsAt(data, n, {L888})[1].total_duty = 0
          /\ Len(RowsAt(data, n, {L051})) = 1
          /\ RowsAt(data, n, {L051})[1].total_duty > 0
          /\ Len(RowsOfSku(duty_data, n, SkuDuties)) = 1
          /\ RowsOfSku(duty_data, n, SkuDuties)[1].adjusted_discounted_total
                = RowsAt(data, n, {L051})[1].total_duty

\* C3: an order with a row at "888" or "999" gets exactly one Delivery row,
\* carrying the maximum of total_shipping over its rows at "051", "888",
\* "999", when that maximum is positive, and no Delivery row otherwise.
C3_DeliverySynthesis ==
    Done =>
      \A n \in OrderNames(data) :
        LET subset == RowsAt(data, n, {L051, L888, L999})
            synth == RowsOfSku(duty_data, n, SkuDelivery)
        IN  RowsAt(data, n, {L888, L999}) # <<>> =>
              IF MaxSeq(Column(subset, ShippingOf)) > 0
              THEN /\ Len(synth) = 1
                   /\ synth[1].adjusted_discounted_total = MaxSeq(Column(subset, ShippingOf))
                   /\ synth[1].product_name = "Delivery"
              ELSE synth = <<>>

\* C3 witness: a participating order with two rows that both carry shipping
\* gets one Delivery row of the maximum, which is less than their sum.
C3_Witness ==
    /\ Done
    /\ \E n \in OrderNames(data) :
          LET subset == RowsAt(data, n, {L051, L888, L999})
          IN  /\ RowsAt(data, n, {L888, L999}) # <<>>
              /\ Len(subset) >= 2
              /\ \A i \in 1..Len(subset) : subset[i].total_shipping > 0
              /\ Len(RowsOfSku(duty_data, n, SkuDelivery)) = 1
              /\ RowsOfSku(duty_data, n, SkuDelivery)[1].adjusted_discounted_total
                    < SumSeq(Column(subset, ShippingOf))

\* C4: the table _duty_tax returns has no row at "888" or "999"; it starts
\* with the input's rows at every other location, unchanged and in their
\* order, and everything after them is a synthetic row.
C4_VirtualRowRemoval ==
    Done =>
      LET kept == SelectSeq(data, LAMBDA r : r.assigned_location \notin {L888, L999})
      IN  /\ ~HasVirtual(duty_data)
          /\ Len(duty_data) >= Len(kept)
          /\ SubSeq(duty_data, 1, Len(kept)) = kept
          /\ \A i \in (Len(kept) + 1)..Len(duty_data) :
                duty_data[i].sku \in {SkuDuties, SkuDelivery}

\* C4 witness: an input with a virtual row, a "051" row of an order that has
\* no virtual row, and a synthetic row appended after the retained rows.
C4_Witness ==
    /\ Done
    /\ HasVirtual(data)
    /\ \E i \in 1..Len(data) :
          /\ data[i].assigned_location = L051
          /\ RowsAt(data, data[i].order_name, {L888, L999}) = <<>>
          /\ duty_data[1] = data[i]
    /\ Len(duty_data) >= 2
    /\ duty_data[Len(duty_data)].sku \in {SkuDuties, SkuDelivery}

\* C5: _giftbox_transform drops the "PRE ORDER" rows of non-positive
\* adjusted_discounted_total, turns every other "PRE ORDER" row into one
\* "051" row with the gift-wrap SKU, name and vendor and an empty discount
\* code, and leaves the rows of every other location as they are.
C5_GiftWrap ==
    Done =>
      LET kept == SelectSeq(duty_data, LAMBDA r :
                     ~(r.assigned_location = LPreOrder /\ r.adjusted_discounted_total <= 0))
      IN  /\ Len(gift_data) = Len(kept)
          /\ \A i \in 1..Len(gift_data) :
                /\ gift_data[i].assigned_location # LPreOrder
                /\ IF kept[i].assigned_location = LPreOrder
                   THEN gift_data[i] = [kept[i] EXCEPT !.assigned_location = L051,
                                                       !.sku = "900000000-PROPS",
                                                       !.product_name = "Gift Wrap",
                                                       !.vendor = "Club21",
                                                       !.discount_code = ""]
                   ELSE gift_data[i] = kept[i]

\* C5 witness: a "PRE ORDER" row of zero value is dropped and one of positive
\* value is rewritten.
C5_Witness ==
    /\ Done
    /\ \E i \in 1..Len(duty_data) :
          /\ duty_data[i].assigned_location = LPreOrder
          /\ duty_data[i].adjusted_discounted_total = 0
    /\ \E i \in 1..Len(duty_data) :
          /\ duty_data[i].assigned_location = LPreOrder
          /\ duty_data[i].adjusted_discounted_total > 0
    /\ Len(gift_data) = 1
    /\ gift_data[1].sku = "900000000-PROPS"
    /\ gift_data[1].vendor = "Club21"
    /\ gift_data[1].assigned_location = L051

\* the scenario of C6: a plain order, one line at "051" with no duty and no
\* discount ...
PlainOrder(doc) ==
    /\ ~DocRaises(doc)
    /\ Len(doc.legs) = 1
    /\ warehouse_code(doc.legs[1].location) = L051
    /\ Len(doc.legs[1].items) = 1
    /\ doc.legs[1].items[1].sku = "SKU-1"
    /\ doc.legs[1].items[1].duties = <<>>
    /\ doc.legs[1].items[1].discounts = <<>>

\* ... and a split order: one single-line leg at "051", one at "888", the
\* "888" leg carrying a total duty of 5.00
SplitOrder(doc) ==
    /\ ~DocRaises(doc)
    /\ Len(doc.legs) = 2
    /\ \A k \in 1..2 : Len(doc.legs[k].items) = 1
    /\ \E a, b \in 1..2 :
          /\ warehouse_code(doc.legs[a].location) = L051
          /\ warehouse_code(doc.legs[b].location) = L888
          /\ DutyAmount(doc.legs[b].items[1]) + DutyTax(doc.legs[b].items[1]) = 500

Scenario(p, q) ==
    /\ ~arg_rows.given
    /\ Len(directory) = 2
    /\ {p, q} = {1, 2}
    /\ PlainOrder(directory[p])
    /\ SplitOrder(directory[q])

\* the rows of the scenario that every run emits: the plain order's line, the
\* split order's "051" line and one synthetic duty row of the split order;
\* no row at "888"
ScenarioRows(p, q) ==
    LET plain == SplitLast(directory[p].name)
        split == SplitLast(directory[q].name)
    IN  /\ Len(RowsOfSku(out, plain, "SKU-1")) = 1
        /\ Len(RowsOfSku(out, split, "SKU-1")) = 1
        /\ Len(RowsOfSku(out, split, SkuDuties)) = 1
        /\ \A i \in 1..Len(out) : out[i].assigned_location = L051

\* C6 as claimed: in the scenario post_transform emits exactly 3 rows.
C6_AsClaimed ==
    Done => \A p, q \in 1..2 : Scenario(p, q) => (Len(out) = 3 /\ ScenarioRows(p, q))

\* C6, amended: in the scenario post_transform emits the plain order's line,
\* the split order's "051" line and one synthetic duty row of the split order,
\* and one synthetic Delivery row of the split order more when that order's
\* total_shipping is positive: 3 rows without a shipping charge, 4 with one;
\* no row at "888" survives.
C6_EndToEnd ==
    Done =>
      \A p, q \in 1..2 :
        Scenario(p, q) =>
          LET split == directory[q]
              shipping == split.shipping_price + SumSeq(split.shipping_taxes)
              delivery == RowsOfSku(out, SplitLast(split.name), SkuDelivery)
          IN  /\ ScenarioRows(p, q)
              /\ Len(delivery) = (IF shipping > 0 THEN 1 ELSE 0)
              /\ Len(out) = 3 + Len(delivery)

\* C6 witness: the scenario with a shipping charge on the split order, and
\* four emitted rows, the fourth the Delivery row.
C6_Witness ==
    /\ Done
    /\ \E p, q \in 1..2 :
          /\ Scenario(p, q)
          /\ directory[q].shipping_price > 0
          /\ ScenarioRows(p, q)
    /\ Len(out) = 4
    /\ out[4].sku = SkuDelivery

\* the rows of the files of a directory that have the order object and its
\* nested fields
WellFormedRows(dir) ==
    Flat([i \in 1..Len(dir) |-> IF DocRaises(dir[i]) THEN <<>> ELSE DocRows(dir[i])])

\* C10 as claimed: flatten passes over a file without the order object, or
\* without a nested field, and returns the rows of every other file.
C10_AsClaimed ==
    (/\ ~arg_rows.given
     /\ pc # "start"
     /\ \E i \in 1..Len(directory) : DocRaises(directory[i])
     /\ \E j \in 1..Len(directory) : ~DocRaises(directory[j]))
    =>  /\ pc # "flatten_raised"
        /\ rows = WellFormedRows(directory)

\* the line items of the directory: file, fulfillment order, position
Occurrences(dir) ==
    UNION {UNION {{<<f, g, i>> : i \in 1..Len(dir[f].legs[g].items)} :
                     g \in 1..Len(dir[f].legs)} :
              f \in 1..Len(dir)}

ItemAt(dir, o) == dir[o[1]].legs[o[2]].items[o[3]]

\* the rows flatten returned for the line item at occurrence o
RowsFor(dir, o) ==
    {k \in 1..Len(rows) :
        /\ rows[k].order_id = dir[o[1]].id
        /\ rows[k].assigned_location = dir[o[1]].legs[o[2]].location
        /\ rows[k].lineitem_id = ItemAt(dir, o).id}

\* C13 as claimed: flatten emits a row for a line item if and only if its SKU
\* or its quantity is truthy (the documents carry no second SKU field); a line
\* item with no SKU and quantity 0 produces no row.
C13_AsClaimed ==
    pc = "flattened" =>
        \A o \in Occurrences(directory) :
            (RowsFor(directory, o) # {})
                <=> (ItemAt(directory, o).sku # "" \/ ItemAt(directory, o).quantity # 0)

\* o comes before p, or is p, in the order of files, then fulfillment orders,
\* then line items
ComesBefore(o, p) ==
    \/ o[1] < p[1]
    \/ o[1] = p[1] /\ o[2] < p[2]
    \/ o[1] = p[1] /\ o[2] = p[2] /\ o[3] <= p[3]

\* the position of occurrence o among the occurrences of the directory
PositionOf(dir, o) == Cardinality({p \in Occurrences(dir) : ComesBefore(p, o)})

\* row r is the row of the line item at occurrence o
RowOf(dir, o, r) ==
    /\ r.order_id = dir[o[1]].id
    /\ r.assigned_location = dir[o[1]].legs[o[2]].location
    /\ r.lineitem_id = ItemAt(dir, o).id
    /\ r.sku = ItemAt(dir, o).sku
    /\ r.quantity = ItemAt(dir, o).quantity

\* C14: over a directory of well-formed documents flatten returns exactly one
\* row per line item of a fulfillment order (a line item of two fulfillment
\* orders has two rows), in the order of the files, then of the fulfillment
\* orders of a file, then of the line items of a fulfillment order, unsorted.
C14_FlattenerShape ==
    pc = "flattened" =>
        /\ Len(rows) = Cardinality(Occurrences(directory))
        /\ \A o \in Occurrences(directory) :
              RowOf(directory, o, rows[PositionOf(directory, o)])

\* C14 witness: two files, one an order whose line item is in two fulfillment
\* orders, the other a fulfillment order of two line items: four rows.
C14_Witness ==
    /\ pc = "flattened"
    /\ Len(directory) = 2
    /\ \E f \in 1..2 :
          /\ Len(directory[f].legs) = 2
          /\ directory[f].legs[1].items[1].id = directory[f].legs[2].items[1].id
    /\ \E f \in 1..2 :
          /\ Len(directory[f].legs) = 1
          /\ Len(directory[f].legs[1].items) = 2
    /\ directory[1].id > directory[2].id
    /\ Len(rows) = 4

\* C16: every final row shows a positive discount_amount d as -d and any
\* other as the literal "-0", a positive total_duty unchanged and any other as
\* the literal '""', a positive total_shipping as its string form and any
\* other as the literal "0"; original, gift-wrap and synthetic rows alike.
C16_Presentation ==
    Done =>
        /\ Len(out) = Len(gift_data)
        /\ \A i \in 1..Len(out) :
              LET d == gift_data[i].discount_amount
                  t == gift_data[i].total_duty
                  h == gift_data[i].total_shipping
              IN  /\ out[i].discount_amount =
                        (IF d > 0 THEN [kind |-> "float", num |-> 0 - d, lit |-> ""]
                         ELSE [kind |-> "literal", num |-> 0, lit |-> "-0"])
                  /\ out[i].total_duty =
                        (IF t > 0 THEN [kind |-> "float", num |-> t, lit |-> ""]
                         ELSE [kind |-> "literal", num |-> 0, lit |-> "\"\""])
                  /\ out[i].total_shipping =
                        (IF h > 0 THEN [kind |-> "str", num |-> h, lit |-> ""]
                         ELSE [kind |-> "literal", num |-> 0, lit |-> "0"])

\* C16 witness: an original row with a discount of 2.50, duty and shipping,
\* shown as -2.5, the duty and the shipping's string, and a synthetic duty
\* row, shown as "-0", '""' and "0".
C16_Witness ==
    /\ Done
    /\ \E i \in 1..Len(out) :
          /\ gift_data[i].discount_amount = 250
          /\ out[i].discount_amount = [kind |-> "float", num |-> -250, lit |-> ""]
          /\ out[i].total_duty = [kind |-> "float", num |-> 500, lit |-> ""]
          /\ out[i].total_shipping = [kind |-> "str", num |-> 300, lit |-> ""]
    /\ \E j \in 1..Len(out) :
          /\ out[j].sku = SkuDuties
          /\ out[j].discount_amount = [kind |-> "literal", num |-> 0, lit |-> "-0"]
          /\ out[j].total_duty = [kind |-> "literal", num |-> 0, lit |-> "\"\""]
          /\ out[j].total_shipping = [kind |-> "literal", num |-> 0, lit |-> "0"]

\* C17: the branch of lines 240-242 is never taken: an order with a row at
\* "888" or "999" has a non-empty subset of rows at "051", "888", "999", so
\* its duty and shipping sums are evaluated: it gets a Duties & Taxes row
\* exactly when the duty sum is positive and a Delivery row exactly when a
\* shipping charge is.
C17_SkipUnreachable ==
    Done =>
      \A n \in OrderNames(data) :
        RowsAt(data, n, {L888, L999}) # <<>> =>
          LET order_dict == OrderDict(OrderGroup(data, n))
          IN  /\ order_dict # <<>>
              /\ Len(RowsOfSku(duty_data, n, SkuDuties)) =
                    (IF SumSeq(Column(order_dict, DutyOf)) > 0 THEN 1 ELSE 0)
              /\ Len(RowsOfSku(duty_data, n, SkuDelivery)) =
                    (IF \E i \in 1..Len(order_dict) : order_dict[i].total_shipping > 0
                     THEN 1 ELSE 0)

\* C17 witness: an order whose only row is at "888", with duty: the subset is
\* that row, and the order's Duties & Taxes row is emitted.
C17_Witness ==
    /\ Done
    /\ \E n \in OrderNames(data) :
          /\ Len(OrderGroup(data, n)) = 1
          /\ OrderGroup(data, n)[1].assigned_location = L888
          /\ OrderGroup(data, n)[1].total_duty > 0
          /\ OrderDict(OrderGroup(data, n)) = OrderGroup(data, n)
          /\ Len(RowsOfSku(duty_data, n, SkuDuties)) = 1

----------------------------------------------------------------------------
(* warehouse_code called on a location name, and again on what it returned  *)

MaxLen == 3   \* longest location name drawn from LocationChars

\* digits, a separator, a letter and a blank
LocationChars == {"0", "1", "5", "-", "M", " "}

WInit ==
    /\ \/ \E k \in 0..MaxLen : assigned_location \in [1..k -> LocationChars]
       \/ assigned_location \in {R051, LPreOrder}
    /\ code = <<>>
    /\ directory = <<>>
    /\ arg_rows = NoRows
    /\ pc = "start"
    /\ rows = <<>>
    /\ data = <<>>
    /\ duty_data = <<>>
    /\ gift_data = <<>>
    /\ out = <<>>
    /\ RunIdle

\* warehouse_code(assigned_location)
CallWarehouseCode ==
    /\ code = <<>>
    /\ code' = <<warehouse_code(assigned_location)>>
    /\ UNCHANGED <<directory, tvars, pvars, assigned_location>>

\* warehouse_code applied to the code it returned
CallOnCode ==
    /\ Len(code) = 1
    /\ code' = Append(code, warehouse_code(code[1]))
    /\ UNCHANGED <<directory, tvars, pvars, assigned_location>>

WNext == CallWarehouseCode \/ CallOnCode

SpecWarehouse == WInit /\ [][WNext]_vars

\* s[1..n] is the leading run of digits of s
LeadingRun(s, n) ==
    /\ n \in 1..Len(s)
    /\ \A i \in 1..n : s[i] \in Digits
    /\ n < Len(s) => s[n + 1] \notin Digits

\* C15: warehouse_code(s) is the leading run of digits of s when s starts
\* with a digit and s itself otherwise, and warehouse_code applied to its own
\* result returns that result.
C15_WarehouseCode ==
    /\ Len(code) >= 1 =>
          IF assigned_location # <<>> /\ assigned_location[1] \in Digits
          THEN \E n \in 1..Len(assigned_location) :
                  /\ LeadingRun(assigned_location, n)
                  /\ code[1] = SubSeq(assigned_location, 1, n)
          ELSE code[1] = assigned_location
    /\ Len(code) = 2 => code[2] = code[1]

\* C15 witness: "051-MAIN" gave "051", and "051" gave "051" again.
C15_Witness ==
    /\ assigned_location = R051
    /\ code = <<L051, L051>>

----------------------------------------------------------------------------
(* The pipeline run: main() of main.py and run_pipeline_endpoint() of app.py *)
(*                                                                          *)
(* Orders are numbered 1..MaxOrders; order k has the gid ".../Order/k" and  *)
(* the name NameOf(k).  A run ends "done" (it returned), "aborted" (an      *)
(* exception left the run: main() dies with it, the endpoint answers 500)   *)
(* or "crashed" (the process was killed).                                   *)

MaxOrders == 2   \* orders the shop ever has
MaxRuns == 2     \* runs started

EntryPoints == {"main", "app"}

\* main.py line 72: timedelta(days=1); app.py line 78: timedelta(days=2)
LookbackDays(e) == IF e = "main" THEN 1 ELSE 2

\* the "id" of order k in a response: "gid://shopify/Order/<k>"
OrderGid(k) ==
    <<"g", "i", "d", ":", "/", "/", "s", "h", "o", "p", "i", "f", "y", "/",
      "O", "r", "d", "e", "r", "/", DigitChar[k]>>

\* load_latest_order after the download: data["id"].split("/")[-1] of the
\* local file, None (<<>>) when the file is absent or unreadable
load_latest_order(file) ==
    IF file.state = "ok" THEN SplitLastOn(OrderGid(file.id), "/") ELSE <<>>

\* build_query_filter: id:>N, or created_at:>'<now - lookback>'
build_query_filter(latest, e) ==
    IF latest # <<>> THEN [kind |-> "id", id |-> latest, days |-> 0]
    ELSE [kind |-> "created_at", id |-> <<>>, days |-> LookbackDays(e)]

\* the orders a list query with the filter may return
Eligible(f) ==
    IF f.kind = "id" THEN {k \in 1..MaxOrders : k > DecimalValue(f.id)} ELSE 1..MaxOrders

\* the upstream answers of one GraphQL call: a data payload, a payload with
\* an errors array, an HTTP error status, a body that is not JSON
Responses == {"data", "errors", "http_error", "invalid_json"}

\* variant of fetch without the check of line 86: the payload is returned
fetch_raises_NoErrorsCheck(response) == response \in {"http_error", "invalid_json"}

\* ShopifyGraphQL.fetch: raise_for_status raises on an HTTP error, the JSON
\* decoder on a bad body, line 86 on an errors array; nothing is swallowed
fetch_raises(response) == response \in {"errors", "http_error", "invalid_json"}

\* a set of order ids as the list response: ascending ids
RECURSIVE Ascending(_)
Ascending(S) ==
    IF S = {} THEN <<>>
    ELSE LET m == CHOOSE x \in S : \A y \in S : x <= y
         IN  <<m>> \o Ascending(S \ {m})

\* the detail responses of order k that carry no errors array: the order
\* document, or an envelope whose order is null
DetailDocs(k) == {Doc(k, 0, <<Leg(R051, 0)>>), NoOrderDoc(k)}

\* save_response: order_<id>.json is created, or overwritten where it is
SaveFile(dir, doc) ==
    IF \E i \in 1..Len(dir) : dir[i].id = doc.id
    THEN [i \in 1..Len(dir) |-> IF dir[i].id = doc.id THEN doc ELSE dir[i]]
    ELSE Append(dir, doc)

\* variant of main.py lines 115-120 that uploads before it saves
CheckpointSteps_UploadFirst == <<"upload", "save">>

\* main.py lines 115-120, app.py lines 113-118: save_to_json, then upload_to_gcs
CheckpointSteps == <<"save", "upload">>

\* main.py lines 113-124: the checkpoint steps come before the detail loop
StepAfter(step) == IF step = CheckpointSteps[1] THEN CheckpointSteps[2] ELSE "fetch"

\* main.py line 150: the CSV is written only if a detail file was saved
AfterLoop(files) == IF files # <<>> THEN "transform" ELSE "done"

Active == {"load", "list", "save", "upload", "fetch", "transform", "csv_upload"}

PInit ==
    /\ directory = <<>>
    /\ arg_rows = NoRows
    /\ pc = "start"
    /\ rows = <<>>
    /\ data = <<>>
    /\ duty_data = <<>>
    /\ gift_data = <<>>
    /\ out = <<>>
    /\ entry \in EntryPoints
    /\ run_pc = "idle"
    /\ runs = 0
    /\ remote_ckpt = NoFile
    /\ local_ckpt = NoFile
    /\ latest_order_id = <<>>
    /\ query_filter = NoFilter
    /\ orders = <<>>
    /\ idx = 1
    /\ order_detail_files = <<>>
    /\ csv = <<>>
    /\ feed = <<>>
    /\ failed_at = "none"
    /\ remote_at_start = NoFile
    /\ download = "none"
    /\ last_response = "none"
    /\ NoCall

\* the script or the endpoint is invoked
StartRun ==
    /\ run_pc \in {"idle", "done", "aborted", "crashed"}
    /\ runs < MaxRuns
    /\ runs' = runs + 1
    /\ run_pc' = "load"
    /\ latest_order_id' = <<>>
    /\ query_filter' = NoFilter
    /\ orders' = <<>>
    /\ idx' = 1
    /\ order_detail_files' = <<>>
    /\ csv' = <<>>
    /\ failed_at' = "none"
    /\ remote_at_start' = remote_ckpt
    /\ download' = "none"
    /\ last_response' = "none"
    /\ UNCHANGED <<directory, tvars, wvars, entry, remote_ckpt, local_ckpt, feed>>

\* load_latest_order, the download succeeding, and build_query_filter
LoadDownloaded ==
    /\ run_pc = "load"
    /\ remote_ckpt.state # "absent"
    /\ local_ckpt' = remote_ckpt
    /\ latest_order_id' = load_latest_order(local_ckpt')
    /\ query_filter' = build_query_filter(latest_order_id', entry)
    /\ run_pc' = "list"
    /\ download' = "ok"
    /\ UNCHANGED <<directory, tvars, wvars, entry, runs, remote_ckpt, orders, idx,
                   order_detail_files, csv, feed, failed_at, remote_at_start,
                   last_response>>

\* load_latest_order, the download failing (lines 53-54): the exception is
\* logged; the local file is as it was, removed, or left truncated
LoadDownloadFailed ==
    /\ run_pc = "load"
    /\ local_ckpt' \in {local_ckpt, NoFile, BadFile}
    /\ latest_order_id' = load_latest_order(local_ckpt')
    /\ query_filter' = build_query_filter(latest_order_id', entry)
    /\ run_pc' = "list"
    /\ download' = "failed"
    /\ UNCHANGED <<directory, tvars, wvars, entry, runs, remote_ckpt, orders, idx,
                   order_detail_files, csv, feed, failed_at, remote_at_start,
                   last_response>>

\* the order list (fetch_all_orders; app.py line 107) comes back
ListOrders ==
    /\ run_pc = "list"
    /\ \E response \in Responses :
          /\ ~fetch_raises(response)
          /\ last_response' = response
    /\ \E S \in SUBSET Eligible(query_filter) : orders' = Ascending(S)
    /\ run_pc' = IF orders' # <<>> THEN CheckpointSteps[1] ELSE AfterLoop(<<>>)
    /\ UNCHANGED <<directory, tvars, wvars, entry, runs, remote_ckpt, local_ckpt, latest_order_id,
                   query_filter, idx, order_detail_files, csv, feed, failed_at,
                   remote_at_start, download>>

\* an exception leaves the run at its current step
Abort ==
    /\ run_pc' = "aborted"
    /\ failed_at' = run_pc
    /\ UNCHANGED <<directory, tvars, wvars, entry, runs, remote_ckpt, local_ckpt, latest_order_id,
                   query_filter, orders, idx, order_detail_files, csv, feed,
                   remote_at_start, download>>

\* fetch raises on the response: the exception leaves the run
FetchRaise ==
    /\ \E response \in Responses :
          /\ fetch_raises(response)
          /\ last_response' = response
    /\ Abort

\* the list query raises
ListOrdersRaise ==
    /\ run_pc = "list"
    /\ FetchRaise

\* save_to_json(new_latest_order, LAST_ORDER_FILE)
SaveCheckpoint ==
    /\ run_pc = "save"
    /\ local_ckpt' = FileOf(orders[Len(orders)])
    /\ run_pc' = StepAfter("save")
    /\ UNCHANGED <<directory, tvars, wvars, entry, runs, remote_ckpt, latest_order_id, query_filter,
                   orders, idx, order_detail_files, csv, feed, failed_at, remote_at_start,
                   download, last_response>>

\* upload_to_gcs of the local checkpoint file
UploadCheckpoint ==
    /\ run_pc = "upload"
    /\ local_ckpt.state # "absent"
    /\ remote_ckpt' = local_ckpt
    /\ run_pc' = StepAfter("upload")
    /\ UNCHANGED <<directory, tvars, wvars, entry, runs, local_ckpt, latest_order_id, query_filter,
                   orders, idx, order_detail_files, csv, feed, failed_at, remote_at_start,
                   download, last_response>>

\* upload_to_gcs raises (no such local file, storage error)
UploadCheckpointRaise ==
    /\ run_pc = "upload"
    /\ Abort
    /\ UNCHANGED last_response

\* app.py lines 122-123: an order that is not UNFULFILLED is passed over
SkipOrder ==
    /\ run_pc = "fetch"
    /\ entry = "app"
    /\ idx' = idx + 1
    /\ run_pc' = IF idx' <= Len(orders) THEN "fetch" ELSE AfterLoop(order_detail_files)
    /\ UNCHANGED <<directory, tvars, wvars, entry, runs, remote_ckpt, local_ckpt, latest_order_id,
                   query_filter, orders, order_detail_files, csv, feed, failed_at,
                   remote_at_start,
                   download, last_response>>

\* one turn of the detail loop: fetch, append the path, save_response
FetchDetail ==
    /\ run_pc = "fetch"
    /\ \E response \in Responses :
          /\ ~fetch_raises(response)
          /\ last_response' = response
    /\ \E doc \in DetailDocs(orders[idx]) : directory' = SaveFile(directory, doc)
    /\ order_detail_files' = Append(order_detail_files, orders[idx])
    /\ idx' = idx + 1
    /\ run_pc' = IF idx' <= Len(orders) THEN "fetch" ELSE AfterLoop(order_detail_files')
    /\ UNCHANGED <<tvars, wvars, entry, runs, remote_ckpt, local_ckpt, latest_order_id,
                   query_filter, orders, csv, feed, failed_at, remote_at_start,
                   download>>

\* the detail fetch raises: nothing catches it inside the loop
FetchDetailRaise ==
    /\ run_pc = "fetch"
    /\ FetchRaise

\* post_transform() with rows=None raises when flatten() does, or on no rows
RunTransformRaises(dir) ==
    IF flatten(dir).raised THEN TRUE ELSE PostTransformRaises(flatten(dir).rows)

\* post_transform() over the directory
RunTransform ==
    /\ run_pc = "transform"
    /\ ~RunTransformRaises(directory)
    /\ csv' = Emit(_giftbox_transform(_duty_tax(Enriched(flatten(directory).rows))))
    /\ run_pc' = "csv_upload"
    /\ UNCHANGED <<directory, tvars, wvars, entry, runs, remote_ckpt, local_ckpt, latest_order_id,
                   query_filter, orders, idx, order_detail_files, feed, failed_at,
                   remote_at_start,
                   download, last_response>>

\* post_transform() raises
RunTransformRaise ==
    /\ run_pc = "transform"
    /\ RunTransformRaises(directory)
    /\ Abort
    /\ UNCHANGED last_response

\* the CSV is uploaded to OrderFeed/ and the run returns
UploadCsv ==
    /\ run_pc = "csv_upload"
    /\ feed' = Append(feed, csv)
    /\ run_pc' = "done"
    /\ UNCHANGED <<directory, tvars, wvars, entry, runs, remote_ckpt, local_ckpt, latest_order_id,
                   query_filter, orders, idx, order_detail_files, csv, failed_at,
                   remote_at_start,
                   download, last_response>>

\* the upload of the CSV raises
UploadCsvRaise ==
    /\ run_pc = "csv_upload"
    /\ Abort
    /\ UNCHANGED last_response

\* the process is killed
Crash ==
    /\ run_pc \in Active
    /\ run_pc' = "crashed"
    /\ failed_at' = run_pc
    /\ UNCHANGED <<directory, tvars, wvars, entry, runs, remote_ckpt, local_ckpt, latest_order_id,
                   query_filter, orders, idx, order_detail_files, csv, feed,
                   remote_at_start,
                   download, last_response>>

PNext ==
    \/ StartRun
    \/ LoadDownloaded
    \/ LoadDownloadFailed
    \/ ListOrders
    \/ ListOrdersRaise
    \/ SaveCheckpoint
    \/ UploadCheckpoint
    \/ UploadCheckpointRaise
    \/ SkipOrder
    \/ FetchDetail
    \/ FetchDetailRaise
    \/ RunTransform
    \/ RunTransformRaise
    \/ UploadCsv
    \/ UploadCsvRaise
    \/ Crash

SpecPipeline == PInit /\ [][PNext]_vars

----------------------------------------------------------------------------
(* Properties of the pipeline run                                           *)

NewCheckpoint == FileOf(orders[Len(orders)])

\* the rows of the order numbered k in an emitted table
CsvRowsOf(table, k) == SelectSeq(table, LAMBDA r : r.order_name = SplitLast(NameOf(k)))

\* C7 as claimed: the checkpoint is written at the end of the run, after the
\* detail loop, so a run that fails while fetching or transforming orders
\* leaves the remote checkpoint at the value it had when the run started.
C7_AsClaimed ==
    (run_pc = "aborted" /\ failed_at \in {"fetch", "transform"})
        => remote_ckpt = remote_at_start

\* C8: the new checkpoint is in the local file before it is uploaded, the
\* remote checkpoint changes only by the upload of that file, and a run
\* killed between the computation of the new checkpoint and the end of the
\* upload leaves the remote checkpoint at its previous value.
C8_CrashSafety ==
    /\ [](run_pc = "upload" => local_ckpt = NewCheckpoint)
    /\ []((run_pc \in {"save", "upload"}
            \/ (run_pc = "crashed" /\ failed_at \in {"save", "upload"}))
          => remote_ckpt = remote_at_start)
    /\ [][remote_ckpt' # remote_ckpt =>
            (run_pc = "upload" /\ local_ckpt = NewCheckpoint /\ remote_ckpt' = local_ckpt)]_vars

\* C8 witness: a run killed after save_to_json and before the upload ended:
\* the local file holds the new checkpoint, the blob the previous one.
C8_Witness ==
    /\ run_pc = "crashed"
    /\ failed_at = "upload"
    /\ local_ckpt = NewCheckpoint
    /\ remote_at_start.state = "ok"
    /\ remote_ckpt = remote_at_start
    /\ remote_ckpt # local_ckpt

\* C9 as claimed: when the detail fetch of one listed order fails, the other
\* listed orders are still fetched (main.py fetches every listed order) and
\* the rows of the fetched orders are in the CSV the run uploads.
C9_AsClaimed ==
    (run_pc = "aborted" /\ failed_at = "fetch") =>
        /\ entry = "main" =>
              \A k \in 1..Len(orders) :
                  k # idx => \E f \in 1..Len(order_detail_files) :
                                order_detail_files[f] = orders[k]
        /\ order_detail_files # <<>> =>
              /\ Len(feed) = runs
              /\ \A f \in 1..Len(order_detail_files) :
                    CsvRowsOf(feed[Len(feed)], order_detail_files[f]) # <<>>

\* C11: a response with an errors array, to the list query or to a detail
\* query, ends the run: fetch raises and nothing catches the exception before
\* the run is left, so the run is aborted at that call, it has written no CSV,
\* and until another run starts no order is fetched, no file is saved and no
\* CSV is uploaded.
C11_GraphQLErrorsFatal ==
    /\ [](last_response = "errors" =>
            /\ run_pc = "aborted"
            /\ failed_at \in {"list", "fetch"}
            /\ csv = <<>>)
    /\ [][(last_response = "errors" /\ last_response' = "errors") =>
            UNCHANGED <<directory, idx, order_detail_files, csv, feed>>]_vars

\* C11 witness: the detail query of a listed order was answered with an errors
\* array while orders were still to be fetched; the run is aborted there.
C11_Witness ==
    /\ last_response = "errors"
    /\ run_pc = "aborted"
    /\ failed_at = "fetch"
    /\ idx < Len(orders)
    /\ csv = <<>>

\* C12 as claimed: when download_from_gcs fails at the start of a run,
\* load_latest_order returns no id and the filter of the run is the lookback
\* form created_at:>'<timestamp>', never id:>N, and the run goes on to the list
\* query; when the checkpoint is downloaded and read, the filter is id:>N with
\* N the segment after the last "/" of the checkpoint's id.
C12_AsClaimed ==
    run_pc = "list" =>
        /\ download = "failed" =>
              /\ latest_order_id = <<>>
              /\ query_filter = [kind |-> "created_at", id |-> <<>>,
                                 days |-> LookbackDays(entry)]
        /\ (download = "ok" /\ local_ckpt.state = "ok") =>
              /\ query_filter.kind = "id"
              /\ query_filter.id = <<DigitChar[local_ckpt.id]>>

\* C18 as claimed: over successive runs on one data directory, the CSV a run
\* writes and uploads has rows only of orders whose detail documents the same
\* run fetched; an order fetched by an earlier run is not emitted again.
C18_AsClaimed ==
    \A i \in 1..Len(csv) :
        \E f \in 1..Len(order_detail_files) :
            csv[i].order_name = SplitLast(NameOf(order_detail_files[f]))

====
